---------------------------- MODULE Spec2Model ----------------------------
(***************************************************************************)
(* Binary CKKS over GF(2)[x]/(x^n+1): the ring element SimpleBinaryPoly,   *)
(* the three samplers, and the engine SimpleBinaryCKKS (keyGen, encode,    *)
(* decode, encrypt, decrypt, add, multiply, needsRefresh, refresh) of      *)
(* src/simple_binary_ckks.cpp, with the ring operators of BinaryPoly of    *)
(* src/binary_ckks.cpp beside them.                                        *)
(*                                                                         *)
(* A polynomial is a record [n, coeffs]: coeffs is the vector<long> of the *)
(* class, a sequence of length n whose k-th entry is the coefficient of    *)
(* x^(k-1).  A double (noise_estimate, sigma, a threshold) is an exact     *)
(* rational [num, den] in lowest terms with den > 0: the model adds,       *)
(* multiplies and compares doubles without rounding.                       *)
(***************************************************************************)
EXTENDS Integers, Sequences, FiniteSets, TLC

(***************************************************************************)
(* Bounds of the model.                                                    *)
(***************************************************************************)
\* Rounded Gaussian samples are drawn from -MaxGauss..MaxGauss.
MaxGauss == 1
\* A caller stops chaining add/multiply on a ciphertext whose noise_estimate
\* exceeds MaxNoise (it only reads, decrypts or refreshes it).
MaxNoise == 7
\* The ring operators are called on polynomials of dimension 0..MaxRingDim.
MaxRingDim == 2
\* The ring laws are evaluated on polynomials of dimension 1..MaxLawDim.
MaxLawDim == 3
\* Sampler seeds, and the values std::random_device returns, are 0..MaxSeed.
MaxSeed == 3
\* A sampler serves at most MaxCalls sampleHWT calls.
MaxCalls == 2

(***************************************************************************)
(* C++ integer arithmetic on long.                                         *)
(***************************************************************************)
\* a % 2 in C++: the remainder of the division truncated toward zero.
CMod2(a) == IF a >= 0 THEN a % 2 ELSE 0 - ((0 - a) % 2)

\* abs(a) on long.
CAbs(a) == IF a >= 0 THEN a ELSE 0 - a

\* a / 2 in C++ (truncated toward zero).
CDiv2(a) == IF a >= 0 THEN a \div 2 ELSE 0 - ((0 - a) \div 2)

(***************************************************************************)
(* Doubles as exact rationals.                                             *)
(***************************************************************************)
RECURSIVE Gcd(_, _)
Gcd(a, b) == IF b = 0 THEN a ELSE Gcd(b, a % b)

Rat(num, den) ==
    LET g == Gcd(CAbs(num), den)
    IN  [num |-> num \div g, den |-> den \div g]

RatAdd(x, y) == Rat(x.num * y.den + y.num * x.den, x.den * y.den)

RatMul(x, y) == Rat(x.num * y.num, x.den * y.den)

\* x > y on doubles.
RatGT(x, y) == x.num * y.den > y.num * x.den

\* sigma = 3.2, set in the engine's constructor.
sigma == Rat(16, 5)

(***************************************************************************)
(* SimpleBinaryPoly.                                                       *)
(***************************************************************************)
\* vector::resize(n, 0): cut to n entries or padded with zeros.
Resize(v, n) == [k \in 1..n |-> IF k <= Len(v) THEN v[k] ELSE 0]

\* SimpleBinaryPoly(ring_dim): the zero polynomial.
ZeroPoly(n) == [n |-> n, coeffs |-> [k \in 1..n |-> 0]]

\* SimpleBinaryPoly(coefficients, ring_dim): the coefficients are copied as
\* they are (no reduction mod 2) and resized to ring_dim.
Poly(coefficients, n) == [n |-> n, coeffs |-> Resize(coefficients, n)]

\* getCoeff(i), i counted from 0.
getCoeff(p, i) == IF i >= 0 /\ i < p.n THEN p.coeffs[i + 1] ELSE 0

\* setCoeff(i, val), i counted from 0: coeffs[i] = val % 2 when i is in range.
setCoeff(p, i, val) ==
    IF i >= 0 /\ i < p.n
    THEN [p EXCEPT !.coeffs[i + 1] = CMod2(val)]
    ELSE p

\* An operator+ that ORs the coefficients instead of adding them mod 2.
PolyAddOr(a, b) ==
    [n |-> a.n,
     coeffs |-> [k \in 1..a.n |->
                    IF a.coeffs[k] # 0 \/ b.coeffs[k] # 0 THEN 1 ELSE 0]]

\* An operator+ that adds the coefficients without reducing them mod 2.
PolyAddUnreduced(a, b) ==
    [n |-> a.n, coeffs |-> [k \in 1..a.n |-> a.coeffs[k] + b.coeffs[k]]]

\* operator+ on operands of one dimension: (coeffs[i] + other.coeffs[i]) % 2.
PolyAdd(a, b) ==
    [n |-> a.n, coeffs |-> [k \in 1..a.n |-> CMod2(a.coeffs[k] + b.coeffs[k])]]

\* The double loop of operator*, walked in the code's order: step idx is the
\* pair i = idx / n, j = idx % n; a pair with both coefficients nonzero flips
\* result[(i + j) % n] (the two branches on i + j >= n do the same thing).
RECURSIVE MulLoop(_, _, _, _)
MulLoop(a, b, idx, result) ==
    IF idx >= a.n * a.n
    THEN result
    ELSE LET i == idx \div a.n
             j == idx % a.n
             pos == (i + j) % a.n
         IN  IF a.coeffs[i + 1] # 0 /\ b.coeffs[j + 1] # 0
             THEN MulLoop(a, b, idx + 1,
                          [result EXCEPT ![pos + 1] = CMod2(result[pos + 1] + 1)])
             ELSE MulLoop(a, b, idx + 1, result)

\* An operator* that drops the products x^(i+j) with i + j >= n instead of
\* wrapping them to (i + j) % n.
PolyMulNoWrap(a, b) ==
    [n |-> a.n,
     coeffs |-> [k \in 1..a.n |->
                    Cardinality({ij \in (0..(a.n - 1)) \X (0..(a.n - 1)) :
                                    /\ ij[1] + ij[2] = k - 1
                                    /\ a.coeffs[ij[1] + 1] # 0
                                    /\ b.coeffs[ij[2] + 1] # 0}) % 2]]

\* operator* on operands of one dimension.
PolyMul(a, b) ==
    [n |-> a.n, coeffs |-> MulLoop(a, b, 0, [k \in 1..a.n |-> 0])]

\* getDegree(): the highest index with a nonzero coefficient, or -1.
getDegree(p) ==
    LET nz == {i \in 0..(p.n - 1) : p.coeffs[i + 1] # 0}
    IN  IF nz = {} THEN 0 - 1 ELSE CHOOSE i \in nz : \A j \in nz : j <= i

\* What operator+ and operator* read of `other` when its dimension is not
\* this->n and assert is compiled out (NDEBUG): other.coeffs[k] for k < n,
\* which past other.n is a read outside the vector, of any value (junk[k]).
ReadAs(other, len, junk) ==
    [n |-> len,
     coeffs |-> [k \in 1..len |-> IF k <= other.n THEN other.coeffs[k] ELSE junk[k]]]

\* The values a read outside a vector is given in the model.
JunkVals == {0 - 1, 0, 1}

(***************************************************************************)
(* BinaryPoly (src/binary_ckks.cpp): n is degree_bound.                     *)
(***************************************************************************)
\* BinaryPoly::operator+: the result has the larger degree_bound, a missing
\* coefficient reads as 0.
BinaryPolyAdd(a, b) ==
    LET deg == IF a.n >= b.n THEN a.n ELSE b.n
    IN  [n |-> deg,
         coeffs |-> [k \in 1..deg |->
                        CMod2((IF k <= a.n THEN a.coeffs[k] ELSE 0)
                              + (IF k <= b.n THEN b.coeffs[k] ELSE 0))]]

\* The double loop of BinaryPoly::operator*: i over coeffs, j over
\* other.coeffs, pos = (i + j) % degree_bound.
RECURSIVE BinaryMulLoop(_, _, _, _)
BinaryMulLoop(a, b, idx, result) ==
    IF idx >= a.n * b.n
    THEN result
    ELSE LET i == idx \div b.n
             j == idx % b.n
             pos == (i + j) % a.n
         IN  IF a.coeffs[i + 1] # 0 /\ b.coeffs[j + 1] # 0
             THEN BinaryMulLoop(a, b, idx + 1,
                                [result EXCEPT ![pos + 1] = CMod2(result[pos + 1] + 1)])
             ELSE BinaryMulLoop(a, b, idx + 1, result)

\* BinaryPoly::operator*: the result has this->degree_bound.
BinaryPolyMul(a, b) ==
    [n |-> a.n, coeffs |-> BinaryMulLoop(a, b, 0, [k \in 1..a.n |-> 0])]

(***************************************************************************)
(* Samplers.  In the engine's operations a sampler's generator is not      *)
(* modelled: what a call returns is an input of the operation that makes   *)
(* it, drawn from every value the generator can give.  Where seeding is    *)
(* the subject, a sampler is its seed and the number of calls it served.   *)
(***************************************************************************)
\* What SimpleGaussian::sample() can return: a rounded normal sample.
GaussVals == (0 - MaxGauss)..MaxGauss

\* The samples that abs(x) % 2 reduces to 0.
EvenGaussVals == {x \in GaussVals : x % 2 = 0}

\* What SimpleGaussian::sampleVector(n) can return, its samples among G.
GaussVectors(n, G) == [1..n -> G]

\* What UniformBinary::sampleVector(n) can return.
BinaryVectors(n) == [1..n -> {0, 1}]

\* What shuffle can leave in positions: a permutation of 0..n-1.
Shuffles(n) ==
    {p \in [1..n -> 0..(n - 1)] : \A i, j \in 1..n : p[i] = p[j] => i = j}

\* A sampleHWT whose loop runs while i <= h.
sampleHWTInclusive(n, h, positions) ==
    [k \in 1..n |->
        IF \E i \in 0..(n - 1) : i <= h /\ positions[i + 1] = k - 1 THEN 1 ELSE 0]

\* SimpleHWT::sampleHWT(n, h) when the shuffle left `positions`:
\* result[positions[i]] = 1 for every i < h and i < n.
sampleHWT(n, h, positions) ==
    [k \in 1..n |->
        IF \E i \in 0..(n - 1) : i < h /\ positions[i + 1] = k - 1 THEN 1 ELSE 0]

\* for (auto& coeff : e_coeffs) coeff = abs(coeff) % 2;
ReduceAbs(samples) == [k \in 1..Len(samples) |-> CMod2(CAbs(samples[k]))]

\* The loop of BinaryCKKS::keyGen and encrypt over the rounded Gaussian
\* samples: coeff = coeff % 2.
ReduceMod(samples) == [k \in 1..Len(samples) |-> CMod2(samples[k])]

\* BinaryPoly(coefficients, deg_bound).
BinaryPoly(coefficients, deg_bound) ==
    [n |-> deg_bound, coeffs |-> Resize(coefficients, deg_bound)]

\* BinaryCKKS::keyGen() with n = M: s from sampleHWT, pk = (a, e + a*s),
\* evk = (a0, e0 + a0*s + s*s).
binaryKeyGen(M, h, positions, a_coeffs, e_samples, a0_coeffs, e0_samples) ==
    LET s == BinaryPoly(sampleHWT(M, h, positions), M)
        pk_a == BinaryPoly(a_coeffs, M)
        e == BinaryPoly(ReduceMod(e_samples), M)
        evk_a == BinaryPoly(a0_coeffs, M)
        e0 == BinaryPoly(ReduceMod(e0_samples), M)
    IN  [s |-> s,
         pk_a |-> pk_a,
         pk_b |-> BinaryPolyAdd(e, BinaryPolyMul(pk_a, s)),
         evk_a |-> evk_a,
         evk_b |-> BinaryPolyAdd(BinaryPolyAdd(e0, BinaryPolyMul(evk_a, s)),
                                 BinaryPolyMul(s, s))]

\* The seeds of the model and the values std::random_device returns.
Seeds == 0..MaxSeed

\* The two Hamming-weight sampler classes.
HwtClasses == {"SimpleHWT", "HammingWeightSampler"}

\* The seed a sampler constructed without one gets: the default argument is
\* random_device{}() for SimpleHWT and 0 for HammingWeightSampler.
DefaultSeed(class, entropy) == IF class = "SimpleHWT" THEN entropy ELSE 0

\* SimpleHWT(seed) and HammingWeightSampler(seed): rng(seed), no call served.
NewHWT(class, seed) == [class |-> class, seed |-> seed, calls |-> 0]

\* What shuffle leaves in positions when the sampler's mt19937, seeded with
\* seed, has served `calls` shuffles before: a function of seed and calls,
\* taken here as the rotation of 0..n-1 by seed + calls.
ShuffleFrom(n, seed, calls) == [i \in 1..n |-> ((i - 1) + seed + calls) % n]

\* sampler.sampleHWT(n, h) of a seeded sampler.
seededSampleHWT(sampler, n, h) ==
    sampleHWT(n, h, ShuffleFrom(n, sampler.seed, sampler.calls))

\* What one call draws from the engine's three samplers: the number of
\* uniform_sampler->sample() and gaussian_sampler->sample() calls (one per
\* entry of a sampleVector result) and of hwt_sampler->sampleHWT() calls (one
\* shuffle each).  A sampler's generator moves only when it is drawn from.
NoDraws == [uniform |-> 0, gaussian |-> 0, hwt |-> 0]

\* keyGen(): s from sampleHWT, a and a0 from the uniform sampler, e and e0
\* from the Gaussian sampler.
keyGenDraws(a_coeffs, e_samples, a0_coeffs, e0_samples) ==
    [uniform |-> Len(a_coeffs) + Len(a0_coeffs),
     gaussian |-> Len(e_samples) + Len(e0_samples),
     hwt |-> 1]

\* An encrypt that takes e1 from the uniform sampler.
encryptDrawsUniformE1(v_coeffs, e0_samples, e1_samples) ==
    [uniform |-> Len(v_coeffs) + Len(e1_samples),
     gaussian |-> Len(e0_samples),
     hwt |-> 0]

\* encrypt(): v from the uniform sampler, e0 and e1 from the Gaussian sampler.
encryptDraws(v_coeffs, e0_samples, e1_samples) ==
    [uniform |-> Len(v_coeffs),
     gaussian |-> Len(e0_samples) + Len(e1_samples),
     hwt |-> 0]

(***************************************************************************)
(* SimpleBinaryCKKS: the engine's operations as functions of their         *)
(* arguments and of what the samplers return.                              *)
(***************************************************************************)
\* keyGen(): s from sampleHWT, pk = (a, a*s + e), evk = (a0, a0*s + e0 + s*s).
keyGen(n, h, positions, a_coeffs, e_samples, a0_coeffs, e0_samples) ==
    LET s == Poly(sampleHWT(n, h, positions), n)
        pk_a == Poly(a_coeffs, n)
        e == Poly(ReduceAbs(e_samples), n)
        evk_a == Poly(a0_coeffs, n)
        e0 == Poly(ReduceAbs(e0_samples), n)
    IN  [s |-> s,
         pk_a |-> pk_a,
         pk_b |-> PolyAdd(PolyMul(pk_a, s), e),
         evk_a |-> evk_a,
         evk_b |-> PolyAdd(PolyAdd(PolyMul(evk_a, s), e0), PolyMul(s, s))]

\* The loop of encode: setCoeff(i, data[i] % 2) for i < data.size(), i < n.
RECURSIVE EncodeLoop(_, _, _)
EncodeLoop(data, i, result) ==
    IF i >= Len(data) \/ i >= result.n
    THEN result
    ELSE EncodeLoop(data, i + 1, setCoeff(result, i, CMod2(data[i + 1])))

\* encode(data) of an engine of ring dimension n.
encode(n, data) == EncodeLoop(data, 0, ZeroPoly(n))

\* A decode that reads getCoeff(i + 1) into result[i].
decodeShifted(poly, expected_size) ==
    [k \in 1..expected_size |-> IF k - 1 < poly.n THEN getCoeff(poly, k) ELSE 0]

\* decode(poly, expected_size): a vector of expected_size zeros whose entries
\* i < poly.getRingDim() are poly.getCoeff(i).
decode(poly, expected_size) ==
    [k \in 1..expected_size |-> IF k - 1 < poly.n THEN getCoeff(poly, k - 1) ELSE 0]

\* An encrypt that leaves e1 out of c1.
encryptDroppingE1(n, plaintext, keys, v_coeffs, e0_samples, e1_samples) ==
    LET v == Poly(v_coeffs, n)
        e0 == Poly(ReduceAbs(e0_samples), n)
    IN  [c0 |-> PolyAdd(PolyAdd(PolyMul(v, keys.pk_b), plaintext), e0),
         c1 |-> PolyMul(v, keys.pk_a),
         noise_estimate |-> sigma]

\* An encrypt that leaves noise_estimate at the 0.0 of a default-constructed
\* ciphertext.
encryptZeroNoise(n, plaintext, keys, v_coeffs, e0_samples, e1_samples) ==
    LET v == Poly(v_coeffs, n)
        e0 == Poly(ReduceAbs(e0_samples), n)
        e1 == Poly(ReduceAbs(e1_samples), n)
    IN  [c0 |-> PolyAdd(PolyAdd(PolyMul(v, keys.pk_b), plaintext), e0),
         c1 |-> PolyAdd(PolyMul(v, keys.pk_a), e1),
         noise_estimate |-> Rat(0, 1)]

\* encrypt(plaintext, keys): c0 = v*pk_b + plaintext + e0, c1 = v*pk_a + e1,
\* noise_estimate = sigma.
encrypt(n, plaintext, keys, v_coeffs, e0_samples, e1_samples) ==
    LET v == Poly(v_coeffs, n)
        e0 == Poly(ReduceAbs(e0_samples), n)
        e1 == Poly(ReduceAbs(e1_samples), n)
    IN  [c0 |-> PolyAdd(PolyAdd(PolyMul(v, keys.pk_b), plaintext), e0),
         c1 |-> PolyAdd(PolyMul(v, keys.pk_a), e1),
         noise_estimate |-> sigma]

\* A decrypt that also gives up on a ciphertext whose noise_estimate is
\* above 10.
decryptAssertsLowNoise(ciphertext, keys) ==
    /\ ciphertext.c1.n = keys.s.n
    /\ ciphertext.c0.n = ciphertext.c1.n
    /\ ~RatGT(ciphertext.noise_estimate, Rat(10, 1))

\* decrypt throws nothing; the only checks on its way are the two
\* assert(n == other.n) of c1 * s and of c0 + (c1 * s).
decryptAsserts(ciphertext, keys) ==
    /\ ciphertext.c1.n = keys.s.n
    /\ ciphertext.c0.n = ciphertext.c1.n

\* decrypt(ciphertext, keys): c0 + c1 * s.
decrypt(ciphertext, keys) ==
    PolyAdd(ciphertext.c0, PolyMul(ciphertext.c1, keys.s))

\* An add whose noise_estimate is the larger of the operands'.
addMaxNoise(ct1, ct2) ==
    [c0 |-> PolyAdd(ct1.c0, ct2.c0),
     c1 |-> PolyAdd(ct1.c1, ct2.c1),
     noise_estimate |-> IF RatGT(ct1.noise_estimate, ct2.noise_estimate)
                        THEN ct1.noise_estimate ELSE ct2.noise_estimate]

\* An add that keeps the c1 of its first operand.
addKeepingC1(ct1, ct2) ==
    [c0 |-> PolyAdd(ct1.c0, ct2.c0),
     c1 |-> ct1.c1,
     noise_estimate |-> RatAdd(ct1.noise_estimate, ct2.noise_estimate)]

\* add(ct1, ct2).
add(ct1, ct2) ==
    [c0 |-> PolyAdd(ct1.c0, ct2.c0),
     c1 |-> PolyAdd(ct1.c1, ct2.c1),
     noise_estimate |-> RatAdd(ct1.noise_estimate, ct2.noise_estimate)]

\* A multiply whose noise_estimate is the product alone, without + sigma.
multiplyNoSigma(ct1, ct2, keys) ==
    LET d0 == PolyMul(ct1.c0, ct2.c0)
        d1 == PolyAdd(PolyMul(ct1.c0, ct2.c1), PolyMul(ct1.c1, ct2.c0))
        d2 == PolyMul(ct1.c1, ct2.c1)
    IN  [c0 |-> PolyAdd(d0, PolyMul(d2, keys.evk_b)),
         c1 |-> PolyAdd(d1, PolyMul(d2, keys.evk_a)),
         noise_estimate |-> RatMul(ct1.noise_estimate, ct2.noise_estimate)]

\* A multiply whose noise_estimate is the product less sigma.
multiplyLessSigma(ct1, ct2, keys) ==
    LET d0 == PolyMul(ct1.c0, ct2.c0)
        d1 == PolyAdd(PolyMul(ct1.c0, ct2.c1), PolyMul(ct1.c1, ct2.c0))
        d2 == PolyMul(ct1.c1, ct2.c1)
    IN  [c0 |-> PolyAdd(d0, PolyMul(d2, keys.evk_b)),
         c1 |-> PolyAdd(d1, PolyMul(d2, keys.evk_a)),
         noise_estimate |->
             RatAdd(RatMul(ct1.noise_estimate, ct2.noise_estimate),
                    Rat(0 - 16, 5))]

\* A multiply that drops the degree-2 component d2 instead of switching it
\* to the evaluation key.
multiplyDroppingD2(ct1, ct2, keys) ==
    [c0 |-> PolyMul(ct1.c0, ct2.c0),
     c1 |-> PolyAdd(PolyMul(ct1.c0, ct2.c1), PolyMul(ct1.c1, ct2.c0)),
     noise_estimate |->
         RatAdd(RatMul(ct1.noise_estimate, ct2.noise_estimate), sigma)]

\* A multiply that switches d2 with the two halves of evk exchanged.
multiplySwappingEvk(ct1, ct2, keys) ==
    LET d0 == PolyMul(ct1.c0, ct2.c0)
        d1 == PolyAdd(PolyMul(ct1.c0, ct2.c1), PolyMul(ct1.c1, ct2.c0))
        d2 == PolyMul(ct1.c1, ct2.c1)
    IN  [c0 |-> PolyAdd(d0, PolyMul(d2, keys.evk_a)),
         c1 |-> PolyAdd(d1, PolyMul(d2, keys.evk_b)),
         noise_estimate |->
             RatAdd(RatMul(ct1.noise_estimate, ct2.noise_estimate), sigma)]

\* multiply(ct1, ct2, keys): tensor product, then key switching with evk.
multiply(ct1, ct2, keys) ==
    LET d0 == PolyMul(ct1.c0, ct2.c0)
        d1 == PolyAdd(PolyMul(ct1.c0, ct2.c1), PolyMul(ct1.c1, ct2.c0))
        d2 == PolyMul(ct1.c1, ct2.c1)
    IN  [c0 |-> PolyAdd(d0, PolyMul(d2, keys.evk_b)),
         c1 |-> PolyAdd(d1, PolyMul(d2, keys.evk_a)),
         noise_estimate |->
             RatAdd(RatMul(ct1.noise_estimate, ct2.noise_estimate), sigma)]

\* A needsRefresh that also answers true at noise_estimate = threshold.
needsRefreshAtLeast(ct, threshold) == ~RatGT(threshold, ct.noise_estimate)

\* needsRefresh(ct, threshold).
needsRefresh(ct, threshold) == RatGT(ct.noise_estimate, threshold)

\* A refresh whose result keeps the noise_estimate of the ciphertext refreshed.
refreshKeepingNoise(n, ct, old_keys, new_keys, v_coeffs, e0_samples, e1_samples) ==
    [encrypt(n, decrypt(ct, old_keys), new_keys, v_coeffs, e0_samples, e1_samples)
        EXCEPT !.noise_estimate = ct.noise_estimate]

\* refresh(ct, old_keys, new_keys): decrypt under old_keys, encrypt under
\* new_keys (the three vectors are what encrypt's samplers return).
refresh(n, ct, old_keys, new_keys, v_coeffs, e0_samples, e1_samples) ==
    encrypt(n, decrypt(ct, old_keys), new_keys, v_coeffs, e0_samples, e1_samples)

(***************************************************************************)
(* The state: one engine and the values its caller holds.                  *)
(***************************************************************************)
VARIABLES
    n,      \* the engine's ring dimension (ring_dim of the constructor)
    h,      \* the engine's Hamming weight (security / 2)
    keys,   \* the caller's key material: keys[1] (keys), keys[2] (new_keys)
    ct,     \* the caller's ciphertexts ct[1], ct[2] (ct1, ct2 of the drivers)
    ret     \* the last call: its name, its arguments and what it returned

vars == <<n, h, keys, ct, ret>>

KeySlots == {1, 2}
Regs == {1, 2}

NoKeys == [valid |-> FALSE]
NoCt == [valid |-> FALSE]
NoRet == [op |-> "none"]

\* The calls that return a ciphertext.
CtOps == {"add", "multiply", "refresh"}

\* The ciphertext a source names: 1 and 2 are ct[1] and ct[2], 0 is the
\* ciphertext the last call returned (ct_add, ct_mult, ct_refreshed).
Sources == {0} \cup Regs
HasCt(src) == IF src = 0 THEN ret.op \in CtOps ELSE ct[src].valid
CtOf(src) == IF src = 0 THEN ret.val ELSE ct[src].val

\* SimpleBinaryCKKS(security, ring_dim): n = ring_dim, h = security / 2.
Construct(security, ring_dim) ==
    /\ n = ring_dim
    /\ h = CDiv2(security)
    /\ keys = [k \in KeySlots |-> NoKeys]
    /\ ct = [r \in Regs |-> NoCt]
    /\ ret = NoRet

\* BinaryCKKS(lambda): chooseParameters sets h = 64 and the ring dimension M,
\* which the model takes as given.
BinaryConstruct(M) ==
    /\ n = M
    /\ h = 64
    /\ keys = [k \in KeySlots |-> NoKeys]
    /\ ct = [r \in Regs |-> NoCt]
    /\ ret = NoRet

\* keys[k] = scheme.keyGen() of a BinaryCKKS engine into the empty slot k, the
\* Gaussian sampler returning values of G; ret keeps the samples the call
\* drew for e and e0 and the error polynomials it built from them.
BinaryKeyGen(k, G) ==
    /\ ~keys[k].valid
    /\ \E positions \in Shuffles(n), a_coeffs, a0_coeffs \in BinaryVectors(n),
          e_samples, e0_samples \in GaussVectors(n, G) :
          /\ keys' = [keys EXCEPT ![k] =
                 [valid |-> TRUE,
                  val |-> binaryKeyGen(n, h, positions, a_coeffs, e_samples,
                                       a0_coeffs, e0_samples)]]
          /\ ret' = [op |-> "keyGen", class |-> "BinaryCKKS", slot |-> k,
                     err |-> "none",
                     e_samples |-> e_samples, e0_samples |-> e0_samples,
                     e |-> BinaryPoly(ReduceMod(e_samples), n),
                     e0 |-> BinaryPoly(ReduceMod(e0_samples), n)]
    /\ UNCHANGED <<n, h, ct>>

\* Two SimpleHWT or HammingWeightSampler instances built with the explicit
\* seeds seed1 and seed2.
NewSamplers(class, seed1, seed2) ==
    /\ ret.op = "none"
    /\ ret' = [op |-> "construct", class |-> class, explicit |-> TRUE,
               samplers |-> <<NewHWT(class, seed1), NewHWT(class, seed2)>>,
               out |-> << << >>, << >> >>]
    /\ UNCHANGED <<n, h, keys, ct>>

\* The hwt_sampler of two engines, SimpleBinaryCKKS for SimpleHWT and
\* BinaryCKKS for HammingWeightSampler: both constructors build it without a
\* seed.  entropy[i] is what std::random_device returns at the i-th
\* construction.
NewEngines(class, entropy1, entropy2) ==
    /\ ret.op = "none"
    /\ ret' = [op |-> "construct", class |-> class, explicit |-> FALSE,
               entropy |-> <<entropy1, entropy2>>,
               samplers |-> <<NewHWT(class, DefaultSeed(class, entropy1)),
                              NewHWT(class, DefaultSeed(class, entropy2))>>,
               out |-> << << >>, << >> >>]
    /\ UNCHANGED <<n, h, keys, ct>>

\* sampleHWT(n, h) on each of the two samplers (the secret key of a keyGen on
\* each of the two engines); out[i] is the sequence of results of sampler i.
SampleBoth ==
    /\ ret.op \in {"construct", "sampleHWT"}
    /\ \A i \in {1, 2} : ret.samplers[i].calls < MaxCalls
    /\ ret' = [ret EXCEPT
                 !.op = "sampleHWT",
                 !.samplers = [i \in {1, 2} |->
                                 [ret.samplers[i] EXCEPT !.calls = @ + 1]],
                 !.out = [i \in {1, 2} |->
                            Append(ret.out[i], seededSampleHWT(ret.samplers[i], n, h))]]
    /\ UNCHANGED <<n, h, keys, ct>>

\* keys[k] = scheme.keyGen() into the empty slot k, the Gaussian sampler
\* returning values of G; ret keeps the error polynomials e and e0 the call
\* built.  SimpleBinaryCKKSKeys
\* keys(n) resizes five vectors to n: a negative n is a size no vector can
\* have, and the call ends in std::length_error with nothing returned.
KeyGen(k, G) ==
    /\ ~keys[k].valid
    /\ IF n < 0
       THEN /\ ret' = [op |-> "keyGen", slot |-> k, err |-> "length_error",
                           draws |-> NoDraws]
            /\ UNCHANGED keys
       ELSE \E positions \in Shuffles(n), a_coeffs, a0_coeffs \in BinaryVectors(n),
               e_samples, e0_samples \in GaussVectors(n, G) :
                /\ keys' = [keys EXCEPT ![k] =
                       [valid |-> TRUE,
                        val |-> keyGen(n, h, positions, a_coeffs, e_samples,
                                       a0_coeffs, e0_samples)]]
                /\ ret' = [op |-> "keyGen", slot |-> k, err |-> "none",
                           e |-> Poly(ReduceAbs(e_samples), n),
                           e0 |-> Poly(ReduceAbs(e0_samples), n),
                           draws |-> keyGenDraws(a_coeffs, e_samples,
                                                 a0_coeffs, e0_samples)]
    /\ UNCHANGED <<n, h, ct>>

\* encoded = scheme.encode(data).
Encode(data) ==
    /\ n >= 0
    /\ ret' = [op |-> "encode", data |-> data, val |-> encode(n, data),
               draws |-> NoDraws]
    /\ UNCHANGED <<n, h, keys, ct>>

\* ct[r] = scheme.encrypt(encoded, keys[k]) of the plaintext just encoded,
\* into the empty ct[r].  Beside the ciphertext the caller keeps the key slot
\* it was made under and, of a fresh encryption, the message it was made from;
\* ret keeps the polynomials v, e0 and e1 the call built.
Encrypt(r, k, G) ==
    /\ ret.op = "encode"
    /\ keys[k].valid
    /\ ~ct[r].valid
    /\ \E v_coeffs \in BinaryVectors(n), e0_samples, e1_samples \in GaussVectors(n, G) :
          /\ ct' = [ct EXCEPT ![r] =
                       [valid |-> TRUE,
                        val |-> encrypt(n, ret.val, keys[k].val, v_coeffs,
                                        e0_samples, e1_samples),
                        key |-> k,
                        fresh |-> TRUE,
                        data |-> ret.data]]
          /\ ret' = [op |-> "encrypt", dst |-> r, key |-> k,
                     v |-> Poly(v_coeffs, n),
                     e0 |-> Poly(ReduceAbs(e0_samples), n),
                     e1 |-> Poly(ReduceAbs(e1_samples), n),
                     draws |-> encryptDraws(v_coeffs, e0_samples, e1_samples)]
    /\ UNCHANGED <<n, h, keys>>

\* The ciphertext in src is what the last call returned: the result of add,
\* multiply or refresh, or the encryption just written to ct[src].
JustReturned(src) == src = 0 \/ (ret.op = "encrypt" /\ ret.dst = src)

\* scheme.decrypt(ciphertext, keys[k]); `from` keeps the call that returned
\* the ciphertext when it is the one just returned.  A failed assertion ends
\* the call with nothing returned.
Decrypt(src, k) ==
    /\ HasCt(src)
    /\ keys[k].valid
    /\ ret' = IF decryptAsserts(CtOf(src), keys[k].val)
              THEN [op |-> "decrypt", src |-> src, key |-> k, err |-> "none",
                    from |-> IF JustReturned(src) THEN ret ELSE NoRet,
                    val |-> decrypt(CtOf(src), keys[k].val),
                    draws |-> NoDraws]
              ELSE [op |-> "decrypt", src |-> src, key |-> k,
                    err |-> "assertion_failed",
                    from |-> IF JustReturned(src) THEN ret ELSE NoRet,
                    draws |-> NoDraws]
    /\ UNCHANGED <<n, h, keys, ct>>

\* scheme.decode(decrypted, expected_size) of the polynomial just decrypted.
Decode(expected_size) ==
    /\ ret.op = "decrypt"
    /\ ret' = [op |-> "decode", of |-> ret, size |-> expected_size,
               val |-> decode(ret.val, expected_size), draws |-> NoDraws]
    /\ UNCHANGED <<n, h, keys, ct>>

\* An add that writes its result into its first operand (ct1 += ct2).
AddInPlace(a, b) ==
    /\ ct[a].valid /\ ct[b].valid
    /\ ret' = [op |-> "add", a |-> a, b |-> b, key |-> ct[a].key,
               val |-> add(ct[a].val, ct[b].val), draws |-> NoDraws]
    /\ ct' = [ct EXCEPT ![a].val = add(ct[a].val, ct[b].val)]
    /\ UNCHANGED <<n, h, keys>>

\* scheme.add(ct[a], ct[b]).
Add(a, b) ==
    /\ ct[a].valid /\ ct[b].valid
    /\ ret' = [op |-> "add", a |-> a, b |-> b, key |-> ct[a].key,
               val |-> add(ct[a].val, ct[b].val), draws |-> NoDraws]
    /\ UNCHANGED <<n, h, keys, ct>>

\* scheme.multiply(ct[a], ct[b], keys[k]).
Multiply(a, b, k) ==
    /\ ct[a].valid /\ ct[b].valid
    /\ keys[k].valid
    /\ ret' = [op |-> "multiply", a |-> a, b |-> b, key |-> k,
               val |-> multiply(ct[a].val, ct[b].val, keys[k].val),
               draws |-> NoDraws]
    /\ UNCHANGED <<n, h, keys, ct>>

\* scheme.needsRefresh(ciphertext, threshold): no threshold is refused.
NeedsRefresh(src, threshold) ==
    /\ HasCt(src)
    /\ ret' = [op |-> "needsRefresh", src |-> src, threshold |-> threshold,
               noise |-> CtOf(src).noise_estimate, err |-> "none",
               val |-> needsRefresh(CtOf(src), threshold), draws |-> NoDraws]
    /\ UNCHANGED <<n, h, keys, ct>>

\* scheme.refresh(ct[r], keys[old], keys[new]), the Gaussian sampler returning
\* values of G.
Refresh(r, old, new, G) ==
    /\ ct[r].valid
    /\ keys[old].valid /\ keys[new].valid
    /\ \E v_coeffs \in BinaryVectors(n), e0_samples, e1_samples \in GaussVectors(n, G) :
          ret' = [op |-> "refresh", a |-> r, old |-> old, key |-> new,
                  val |-> refresh(n, ct[r].val, keys[old].val, keys[new].val,
                                  v_coeffs, e0_samples, e1_samples),
                  draws |-> encryptDraws(v_coeffs, e0_samples, e1_samples)]
    /\ UNCHANGED <<n, h, keys, ct>>

\* ct[r] = the ciphertext just returned (ct_chain = scheme.add(ct_chain, ct)),
\* kept for further operations while its noise_estimate is at most MaxNoise.
Store(r) ==
    /\ ret.op \in CtOps
    /\ ~RatGT(ret.val.noise_estimate, Rat(MaxNoise, 1))
    /\ ct' = [ct EXCEPT ![r] =
                 [valid |-> TRUE, val |-> ret.val, key |-> ret.key,
                  fresh |-> FALSE, data |-> << >>]]
    /\ ret' = NoRet
    /\ UNCHANGED <<n, h, keys>>

\* The calls that leave a SimpleBinaryPoly in ret.val.
PolyOps == {"SimpleBinaryPoly", "setCoeff", "encode",
            "operator+", "operator*", "operator+=", "operator*="}

\* SimpleBinaryPoly p(coefficients, n), of the engine's ring dimension.
PolyConstruct(coefficients) ==
    /\ n >= 0
    /\ ret' = [op |-> "SimpleBinaryPoly", val |-> Poly(coefficients, n)]
    /\ UNCHANGED <<n, h, keys, ct>>

\* p.setCoeff(i, val) on the polynomial the last call left.
PolySetCoeff(i, val) ==
    /\ ret.op \in PolyOps
    /\ ret' = [op |-> "setCoeff", val |-> setCoeff(ret.val, i, val)]
    /\ UNCHANGED <<n, h, keys, ct>>

\* p + q, p * q, p += q and p *= q, p the polynomial the last call left and
\* q = SimpleBinaryPoly(coefficients, n); += and *= are *this = *this + other
\* and *this = *this * other.
PolyCombine(op, coefficients) ==
    /\ ret.op \in PolyOps
    /\ ret' = [op |-> op,
               val |-> IF op \in {"operator+", "operator+="}
                       THEN PolyAdd(ret.val, Poly(coefficients, n))
                       ELSE PolyMul(ret.val, Poly(coefficients, n))]
    /\ UNCHANGED <<n, h, keys, ct>>

\* scheme.decode(encoded, expected_size) of the plaintext just encoded.
DecodeEncoded(expected_size) ==
    /\ ret.op = "encode"
    /\ ret' = [op |-> "decode", of |-> ret, size |-> expected_size,
               val |-> decode(ret.val, expected_size), draws |-> NoDraws]
    /\ UNCHANGED <<n, h, keys, ct>>

\* Both sides of a ring law computed with operator+ and operator* from the
\* three polynomials a, b, c the caller holds.
EvaluateLaw(law) ==
    /\ ret.op = "operands"
    /\ LET a == ret.a
           b == ret.b
           c == ret.c
       IN  ret' = [op |-> law, a |-> a, b |-> b, c |-> c,
                   lhs |-> CASE law = "a*(b+c)" -> PolyMul(a, PolyAdd(b, c))
                             [] law = "a+b" -> PolyAdd(a, b)
                             [] law = "(a+b)+c" -> PolyAdd(PolyAdd(a, b), c)
                             [] law = "a+a" -> PolyAdd(a, a),
                   rhs |-> CASE law = "a*(b+c)" -> PolyAdd(PolyMul(a, b), PolyMul(a, c))
                             [] law = "a+b" -> PolyAdd(b, a)
                             [] law = "(a+b)+c" -> PolyAdd(a, PolyAdd(b, c))
                             [] law = "a+a" -> ZeroPoly(a.n)]
    /\ UNCHANGED <<n, h, keys, ct>>

\* a + b and a * b on two SimpleBinaryPoly.  With a.n # b.n the call ends in
\* the abort of assert(n == other.n), or, in a build with NDEBUG, goes on and
\* returns what the loops compute from what they read of b.
SimplePolyOp(op, a, b) ==
    /\ \/ /\ a.n = b.n
          /\ ret' = [op |-> op, class |-> "SimpleBinaryPoly", a |-> a, b |-> b,
                     err |-> "none",
                     val |-> IF op = "operator+" THEN PolyAdd(a, b) ELSE PolyMul(a, b)]
       \/ /\ a.n # b.n
          /\ ret' = [op |-> op, class |-> "SimpleBinaryPoly", a |-> a, b |-> b,
                     err |-> "assertion_failed"]
       \/ /\ a.n # b.n
          /\ \E junk \in [1..a.n -> JunkVals] :
                ret' = [op |-> op, class |-> "SimpleBinaryPoly", a |-> a, b |-> b,
                        err |-> "none",
                        val |-> IF op = "operator+"
                                THEN PolyAdd(a, ReadAs(b, a.n, junk))
                                ELSE PolyMul(a, ReadAs(b, a.n, junk))]
    /\ UNCHANGED <<n, h, keys, ct>>

\* a + b and a * b on two BinaryPoly: no dimension is compared.
BinaryPolyOp(op, a, b) ==
    /\ ret' = [op |-> op, class |-> "BinaryPoly", a |-> a, b |-> b,
               err |-> "none",
               val |-> IF op = "operator+" THEN BinaryPolyAdd(a, b)
                                           ELSE BinaryPolyMul(a, b)]
    /\ UNCHANGED <<n, h, keys, ct>>

(***************************************************************************)
(* The engine used as the drivers use it: one key set, two ciphertexts     *)
(* encrypted from encoded bit vectors, their sum and product, decryption   *)
(* and decoding.                                                           *)
(***************************************************************************)
\* The bit vectors of length at most len.
BitVectors(len) == UNION {[1..l -> {0, 1}] : l \in 0..len}

Init == Construct(2, 1) \/ Construct(0, 1)

Next ==
    \/ KeyGen(1, GaussVals)
    \/ \E data \in BitVectors(n) : Encode(data)
    \/ \E r \in Regs : Encrypt(r, 1, GaussVals)
    \/ \E src \in Sources : Decrypt(src, 1)
    \/ \E size \in 0..n : Decode(size)
    \/ \E a, b \in Regs : Add(a, b)
    \/ \E a, b \in Regs : Multiply(a, b, 1)

Spec == Init /\ [][Next]_vars

(***************************************************************************)
(* Reference values the claims compare the engine's results with.          *)
(***************************************************************************)
\* The bitwise XOR of two bit vectors of one length.
Xor(m1, m2) == [k \in 1..Len(m1) |-> IF m1[k] = m2[k] THEN 0 ELSE 1]

\* The cyclic convolution of two coefficient vectors of length len: entry k is
\* the XOR over all i, j with (i + j) mod len = k of (a[i] AND b[j]).
Convolution(a, b, len) ==
    [k \in 1..len |->
        Cardinality({ij \in (0..(len - 1)) \X (0..(len - 1)) :
                        /\ (ij[1] + ij[2]) % len = k - 1
                        /\ a[ij[1] + 1] = 1
                        /\ b[ij[2] + 1] = 1}) % 2]

\* A decode of the decryption, under its own key, of the ciphertext in src.
DecodedFrom(src) ==
    /\ ret.op = "decode"
    /\ ret.of.src = src

\* A decode or a decrypt of what `op` returned for two encrypted messages.
DecryptedResultOf(r, op) ==
    /\ r.op = "decrypt"
    /\ r.src = 0
    /\ r.from.op = op

(***************************************************************************)
(* C1.  Round trip: a message of length at most n that is encoded,         *)
(* encrypted, decrypted under the same keys and decoded to its own length  *)
(* comes back unchanged, whatever the samplers returned.                   *)
(***************************************************************************)
C1_RoundTrip ==
    \A r \in Regs :
        (/\ DecodedFrom(r)
         /\ ct[r].fresh
         /\ ret.of.key = ct[r].key
         /\ ret.size = Len(ct[r].data))
        => ret.val = ct[r].data

(***************************************************************************)
(* C2.  Homomorphic addition: the sum of the encryptions of two messages   *)
(* of one length decrypts and decodes to their bitwise XOR.                *)
(***************************************************************************)
C2_AddIsXor ==
    (/\ ret.op = "decode"
     /\ DecryptedResultOf(ret.of, "add")
     /\ Len(ct[ret.of.from.a].data) = Len(ct[ret.of.from.b].data)
     /\ ret.size = Len(ct[ret.of.from.a].data))
    => ret.val = Xor(ct[ret.of.from.a].data, ct[ret.of.from.b].data)

(***************************************************************************)
(* C3.  Homomorphic multiplication: the product of the encryptions of two  *)
(* messages decrypts to the cyclic convolution of the two encoded messages *)
(* in GF(2)[x]/(x^n+1).                                                    *)
(***************************************************************************)
C3_MultiplyIsConvolution ==
    DecryptedResultOf(ret, "multiply")
    => ret.val.coeffs = Convolution(Resize(ct[ret.from.a].data, n),
                                    Resize(ct[ret.from.b].data, n), n)

(***************************************************************************)
(* C6.  Scenario B: with n = 1, multiply(E(1), E(1)) decrypts to 1 and     *)
(* multiply(E(1), E(0)) decrypts to 0.                                     *)
(***************************************************************************)
C6_ScenarioB ==
    (/\ n = 1
     /\ DecryptedResultOf(ret, "multiply")
     /\ ct[ret.from.a].data = <<1>>)
    => /\ ct[ret.from.b].data = <<1>> => ret.val.coeffs = <<1>>
       /\ ct[ret.from.b].data = <<0>> => ret.val.coeffs = <<0>>

(***************************************************************************)
(* The same drivers on an engine of ring dimension 2 whose Gaussian        *)
(* sampler returns even values only, so that every error polynomial of     *)
(* keyGen and encrypt is zero; the messages have n bits.                    *)
(***************************************************************************)
InitExact == Construct(2, 2)

NextExact ==
    \/ KeyGen(1, EvenGaussVals)
    \/ \E data \in [1..n -> {0, 1}] : Encode(data)
    \/ \E r \in Regs : Encrypt(r, 1, EvenGaussVals)
    \/ \E src \in Sources : Decrypt(src, 1)
    \/ Decode(n)
    \/ \E a, b \in Regs : Add(a, b)
    \/ \E a, b \in Regs : Multiply(a, b, 1)

SpecExact == InitExact /\ [][NextExact]_vars

(***************************************************************************)
(* C4.  What testHomomorphicOperations expects of multiply: the product of *)
(* the encryptions of data1 and data2, of one length, decrypts and decodes *)
(* to the coefficientwise product (data1[i] * data2[i]) % 2.               *)
(***************************************************************************)
C4_MultiplyIsCoefficientwise ==
    (/\ ret.op = "decode"
     /\ DecryptedResultOf(ret.of, "multiply")
     /\ Len(ct[ret.of.from.a].data) = Len(ct[ret.of.from.b].data)
     /\ ret.size = Len(ct[ret.of.from.a].data))
    => ret.val = [i \in 1..ret.size |->
                     (ct[ret.of.from.a].data[i] * ct[ret.of.from.b].data[i]) % 2]

(***************************************************************************)
(* Refresh as main of the demo does it: one ciphertext chained through add *)
(* and multiply, a second key set, refresh from keys[1] to keys[2] and     *)
(* decryption under either key set.                                        *)
(***************************************************************************)
InitRefresh == Construct(2, 1)

NextRefresh ==
    \/ \E k \in KeySlots : KeyGen(k, GaussVals)
    \/ \E data \in BitVectors(n) : Encode(data)
    \/ Encrypt(1, 1, GaussVals)
    \/ Add(1, 1)
    \/ Multiply(1, 1, 1)
    \/ Store(1)
    \/ Refresh(1, 1, 2, GaussVals)
    \/ \E src \in {0, 1}, k \in KeySlots : Decrypt(src, k)
    \/ Decode(n)

SpecRefresh == InitRefresh /\ [][NextRefresh]_vars

(***************************************************************************)
(* Noise accounting: two ciphertexts combined by add and multiply, the     *)
(* results kept and combined again, and needsRefresh asked of any of them. *)
(***************************************************************************)
\* -1, 0, sigma, and 50.0 (the threshold of the demo).
Thresholds == {Rat(0 - 1, 1), Rat(0, 1), sigma, Rat(50, 1)}

InitNoise == Construct(2, 1)

NextNoise ==
    \/ KeyGen(1, GaussVals)
    \/ \E data \in [1..n -> {0, 1}] : Encode(data)
    \/ \E r \in Regs : Encrypt(r, 1, GaussVals)
    \/ \E a, b \in Regs : Add(a, b)
    \/ \E a, b \in Regs : Multiply(a, b, 1)
    \/ \E r \in Regs : Store(r)
    \/ \E src \in Sources, threshold \in Thresholds : NeedsRefresh(src, threshold)

SpecNoise == InitNoise /\ [][NextNoise]_vars

(***************************************************************************)
(* C5.  Refresh preserves the plaintext: what refresh returns decrypts     *)
(* under the new keys, and decodes, to what the refreshed ciphertext       *)
(* decrypts and decodes to under the old keys.                             *)
(***************************************************************************)
C5_RefreshPreservesPlaintext ==
    (/\ ret.op = "decode"
     /\ DecryptedResultOf(ret.of, "refresh")
     /\ ret.of.key = ret.of.from.key)
    => ret.val = decode(decrypt(ct[ret.of.from.a].val, keys[ret.of.from.old].val),
                        ret.size)

(***************************************************************************)
(* C9.  needsRefresh with a threshold <= 0 is refused with                 *)
(* InvalidParameter.                                                       *)
(***************************************************************************)
C9_NonPositiveThresholdRefused ==
    (/\ ret.op = "needsRefresh"
     /\ ret.threshold.num <= 0)
    => ret.err = "InvalidParameter"

(***************************************************************************)
(* C10.  needsRefresh(ct, threshold) is true exactly when noise_estimate   *)
(* is strictly greater than threshold: true when threshold < noise, false  *)
(* when noise < threshold and false when the two are equal.                *)
(***************************************************************************)
\* x < y on the rationals.
Less(x, y) == x.num * y.den < y.num * x.den

C10_NeedsRefreshStrict ==
    ret.op = "needsRefresh"
    => /\ Less(ret.threshold, ret.noise) => ret.val = TRUE
       /\ Less(ret.noise, ret.threshold) => ret.val = FALSE
       /\ ret.noise = ret.threshold => ret.val = FALSE

\* needsRefresh has answered FALSE for a noise_estimate equal to the threshold
\* (sigma against sigma).
C10_Witness ==
    /\ ret.op = "needsRefresh"
    /\ ret.noise = ret.threshold
    /\ ret.val = FALSE

(***************************************************************************)
(* Key generation over the constructor's parameters: every engine          *)
(* SimpleBinaryCKKS(security, ring_dim) of the sets below, and its keyGen. *)
(***************************************************************************)
RingDims == {0 - 1, 0, 1, 2}
Securities == {0 - 2, 0, 2, 4, 6}

InitKeyGen == \E ring_dim \in RingDims, security \in Securities :
                  Construct(security, ring_dim)

NextKeyGen == KeyGen(1, GaussVals)

SpecKeyGen == InitKeyGen /\ [][NextKeyGen]_vars

(***************************************************************************)
(* C7.  keyGen succeeds when 0 <= h <= n and n > 0 (sigma is 3.2 > 0), and *)
(* otherwise fails with InvalidParameter and returns no key material.      *)
(***************************************************************************)
C7_KeyGenValidation ==
    ret.op = "keyGen"
    => IF n > 0 /\ 0 <= h /\ h <= n
       THEN ret.err = "none" /\ keys[ret.slot].valid
       ELSE ret.err = "InvalidParameter" /\ ~keys[ret.slot].valid

(***************************************************************************)
(* Ring operators called on any two polynomials of dimension 0..MaxRingDim. *)
(***************************************************************************)
RingPolys == UNION {[n : {d}, coeffs : [1..d -> {0, 1}]] : d \in 0..MaxRingDim}

InitRing == Construct(2, 1)

NextRing ==
    \/ \E a, b \in RingPolys : SimplePolyOp("operator+", a, b)
    \/ \E a, b \in RingPolys : SimplePolyOp("operator*", a, b)
    \/ \E a, b \in RingPolys : BinaryPolyOp("operator+", a, b)
    \/ \E a, b \in RingPolys : BinaryPolyOp("operator*", a, b)

SpecRing == InitRing /\ [][NextRing]_vars

(***************************************************************************)
(* C8.  Ring add and multiply on two elements of different dimension fail  *)
(* with DimensionMismatch and return no element (the abort of              *)
(* assert(n == other.n) is counted as that failure).                       *)
(***************************************************************************)
C8_DimensionMismatch ==
    (/\ ret.op \in {"operator+", "operator*"}
     /\ ret.a.n # ret.b.n)
    => ret.err \in {"DimensionMismatch", "assertion_failed"}

(***************************************************************************)
(* Chains: ciphertexts of both registers encrypted, added, multiplied,     *)
(* refreshed, kept and combined again, then decrypted or asked about.  The *)
(* key set is one keyGen returns when its Gaussian samples are even.       *)
(***************************************************************************)
InitChain == Construct(2, 1)

NextChain ==
    \/ KeyGen(1, EvenGaussVals)
    \/ \E data \in [1..n -> {0, 1}] : Encode(data)
    \/ \E r \in Regs : Encrypt(r, 1, GaussVals)
    \/ \E a, b \in Regs : Add(a, b)
    \/ \E a, b \in Regs : Multiply(a, b, 1)
    \/ \E r \in Regs : Refresh(r, 1, 1, GaussVals)
    \/ \E r \in Regs : Store(r)
    \/ \E src \in Sources : Decrypt(src, 1)
    \/ \E src \in Sources : NeedsRefresh(src, Rat(50, 1))

SpecChain == InitChain /\ [][NextChain]_vars

(***************************************************************************)
(* C11.  Every ciphertext encrypt returns has noise_estimate sigma, and    *)
(* every ciphertext refresh returns has noise_estimate sigma whatever the  *)
(* noise_estimate of the ciphertext it refreshes.                          *)
(***************************************************************************)
C11_FreshNoiseIsSigma ==
    /\ ret.op = "encrypt" => ct[ret.dst].val.noise_estimate = [num |-> 16, den |-> 5]
    /\ ret.op = "refresh" => ret.val.noise_estimate = [num |-> 16, den |-> 5]

\* refresh has returned a ciphertext of noise_estimate 3.2 for one whose
\* noise_estimate was 6.4.
C11_Witness ==
    /\ ret.op = "refresh"
    /\ ct[ret.a].val.noise_estimate = [num |-> 32, den |-> 5]
    /\ ret.val.noise_estimate = [num |-> 16, den |-> 5]

(***************************************************************************)
(* C12.  add(ct1, ct2) has noise_estimate ct1.noise_estimate +             *)
(* ct2.noise_estimate and components c0 = ct1.c0 + ct2.c0 and              *)
(* c1 = ct1.c1 + ct2.c1 (coefficientwise XOR).                             *)
(***************************************************************************)
C12_AddNoiseAndComponents ==
    ret.op = "add"
    => LET x == ct[ret.a].val
           y == ct[ret.b].val
           r == ret.val
       IN  /\ r.noise_estimate.num * (x.noise_estimate.den * y.noise_estimate.den)
                = (x.noise_estimate.num * y.noise_estimate.den
                   + y.noise_estimate.num * x.noise_estimate.den)
                  * r.noise_estimate.den
           /\ r.c0.n = n /\ r.c1.n = n
           /\ r.c0.coeffs = Xor(x.c0.coeffs, y.c0.coeffs)
           /\ r.c1.coeffs = Xor(x.c1.coeffs, y.c1.coeffs)

\* add has returned the sum of a ciphertext of noise_estimate 3.2 and one of
\* 6.4 whose c0 differ: noise_estimate 9.6 and c0 = 1.
C12_Witness ==
    /\ ret.op = "add"
    /\ ct[ret.a].val.noise_estimate = [num |-> 16, den |-> 5]
    /\ ct[ret.b].val.noise_estimate = [num |-> 32, den |-> 5]
    /\ ret.val.noise_estimate = [num |-> 48, den |-> 5]
    /\ ct[ret.a].val.c0.coeffs # ct[ret.b].val.c0.coeffs
    /\ ret.val.c0.coeffs = <<1>>

(***************************************************************************)
(* C13.  multiply(ct1, ct2, evk) has noise_estimate                        *)
(* ct1.noise_estimate * ct2.noise_estimate + sigma, sigma = 3.2 = 16/5.    *)
(***************************************************************************)
C13_MultiplyNoise ==
    ret.op = "multiply"
    => LET x == ct[ret.a].val.noise_estimate
           y == ct[ret.b].val.noise_estimate
           r == ret.val.noise_estimate
       IN  r.num * (x.den * y.den * 5)
             = (x.num * y.num * 5 + 16 * (x.den * y.den)) * r.den

\* multiply has returned, for operands of noise_estimate 6.4 and 3.2, a
\* ciphertext of noise_estimate 6.4 * 3.2 + 3.2 = 23.68.
C13_Witness ==
    /\ ret.op = "multiply"
    /\ ct[ret.a].val.noise_estimate = [num |-> 32, den |-> 5]
    /\ ct[ret.b].val.noise_estimate = [num |-> 16, den |-> 5]
    /\ ret.val.noise_estimate = [num |-> 592, den |-> 25]

(***************************************************************************)
(* C14.  Noise monotonicity over the ciphertexts the engine produces by    *)
(* encrypt, add, multiply and refresh: the noise_estimate of add(ct1, ct2) *)
(* is at least that of ct1 and that of ct2, and the noise_estimate of      *)
(* multiply(ct1, ct2) is at least their product.                           *)
(***************************************************************************)
C14_NoiseMonotone ==
    /\ ret.op = "add"
       => /\ ~Less(ret.val.noise_estimate, ct[ret.a].val.noise_estimate)
          /\ ~Less(ret.val.noise_estimate, ct[ret.b].val.noise_estimate)
    /\ ret.op = "multiply"
       => ~Less(ret.val.noise_estimate,
                [num |-> ct[ret.a].val.noise_estimate.num
                           * ct[ret.b].val.noise_estimate.num,
                 den |-> ct[ret.a].val.noise_estimate.den
                           * ct[ret.b].val.noise_estimate.den])

\* add has returned the sum of a refreshed ciphertext (noise_estimate 3.2, not
\* a fresh encryption) and a ciphertext of noise_estimate 6.4.
C14_Witness ==
    /\ ret.op = "add"
    /\ ~ct[ret.a].fresh
    /\ ct[ret.a].val.noise_estimate = [num |-> 16, den |-> 5]
    /\ ct[ret.b].val.noise_estimate = [num |-> 32, den |-> 5]

(***************************************************************************)
(* C15.  decrypt never signals failure: for every ciphertext and key the   *)
(* engine produced it raises nothing and returns a ring element of exactly *)
(* n coefficients, whatever the noise_estimate.                            *)
(***************************************************************************)
C15_DecryptNeverFails ==
    ret.op = "decrypt"
    => /\ ret.err = "none"
       /\ ret.val.n = n
       /\ DOMAIN ret.val.coeffs = 1..n

\* decrypt has returned an element for the product of two ciphertexts of
\* noise_estimate 6.4 (noise_estimate 44.16).
C15_Witness ==
    /\ ret.op = "decrypt"
    /\ ret.src = 0
    /\ ret.from.op = "multiply"
    /\ ret.from.val.noise_estimate = [num |-> 1104, den |-> 25]
    /\ ret.err = "none"
    /\ DOMAIN ret.val.coeffs = 1..n

(***************************************************************************)
(* C19.  Operand immutability: a call of add, multiply, decrypt,           *)
(* needsRefresh or refresh leaves every ciphertext and all key material    *)
(* the caller holds as they were; what it computes is a new value.         *)
(***************************************************************************)
C19_OperandsUnchanged == [][
    ret'.op \in {"add", "multiply", "decrypt", "needsRefresh", "refresh"}
    => ct' = ct /\ keys' = keys ]_vars

\* refresh has returned a ciphertext that differs from its operand, and the
\* operand is still the sum it was (noise_estimate 6.4).
C19_Witness ==
    /\ ret.op = "refresh"
    /\ ct[ret.a].val.noise_estimate = [num |-> 32, den |-> 5]
    /\ ret.val.c0 # ct[ret.a].val.c0

(***************************************************************************)
(* C16.  Hamming weight: for n > 0 and 0 <= h <= n the secret key keyGen   *)
(* returns (the vector of the Hamming-weight sampler) has length n with    *)
(* exactly h ones and n - h zeros; h = 0 gives the all-zero key and h = n  *)
(* the all-ones key.                                                       *)
(***************************************************************************)
C16_HammingWeight ==
    (/\ ret.op = "keyGen"
     /\ ret.err = "none"
     /\ n > 0 /\ 0 <= h /\ h <= n)
    => LET s == keys[ret.slot].val.s.coeffs
       IN  /\ DOMAIN s = 1..n
           /\ Cardinality({k \in 1..n : s[k] = 1}) = h
           /\ Cardinality({k \in 1..n : s[k] = 0}) = n - h
           /\ h = 0 => \A k \in 1..n : s[k] = 0
           /\ h = n => \A k \in 1..n : s[k] = 1

\* keyGen of an engine with n = 2 and h = 1 has returned the secret key x.
C16_Witness ==
    /\ ret.op = "keyGen"
    /\ ret.err = "none"
    /\ n = 2 /\ h = 1
    /\ keys[ret.slot].val.s.coeffs = <<0, 1>>

(***************************************************************************)
(* Ring elements and plaintexts built from integers: construction from a   *)
(* vector, setCoeff, encode, the four operators, and decode of an encoded  *)
(* vector, in engines of ring dimension 1 and 2.                           *)
(***************************************************************************)
\* The long values callers pass as coefficients and data.
IntInputs == {0 - 1, 0, 1, 2}

\* The vectors of at most len such values.
IntVectors(len) == UNION {[1..l -> IntInputs] : l \in 0..len}

InitPoly == Construct(2, 1) \/ Construct(2, 2)

NextPoly ==
    \/ \E coefficients \in IntVectors(n + 1) : PolyConstruct(coefficients)
    \/ \E i \in (0 - 1)..n, val \in IntInputs : PolySetCoeff(i, val)
    \/ \E data \in IntVectors(n + 1) : Encode(data)
    \/ \E op \in {"operator+", "operator*", "operator+=", "operator*="},
          coefficients \in IntVectors(n + 1) : PolyCombine(op, coefficients)
    \/ \E size \in 0..(n + 1) : DecodeEncoded(size)

SpecPoly == InitPoly /\ [][NextPoly]_vars

(***************************************************************************)
(* C17.  Representation invariant: after any sequence of construction from *)
(* a coefficient vector, setCoeff, encode, operator+, operator*, += and *= *)
(* with arbitrary integers, a ring element has exactly n coefficients,     *)
(* each 0 or 1.                                                            *)
(***************************************************************************)
C17_RepresentationInvariant ==
    ret.op \in PolyOps
    => /\ ret.val.n = n
       /\ DOMAIN ret.val.coeffs = 1..n
       /\ \A k \in 1..n : ret.val.coeffs[k] \in {0, 1}

(***************************************************************************)
(* C18.  encode(m) of a bit vector m has coefficient i equal to m[i] for   *)
(* i < min(|m|, n) and 0 elsewhere (bits at index >= n are dropped), and   *)
(* decode(encode(m), |m|) = m when |m| <= n.                               *)
(***************************************************************************)
\* m is a vector of bits.
IsBits(m) == \A k \in DOMAIN m : m[k] \in {0, 1}

C18_EncodeDecode ==
    /\ (ret.op = "encode" /\ IsBits(ret.data))
       => /\ ret.val.n = n
          /\ DOMAIN ret.val.coeffs = 1..n
          /\ \A i \in 0..(n - 1) :
                ret.val.coeffs[i + 1] = IF i < Len(ret.data) THEN ret.data[i + 1] ELSE 0
    /\ (/\ ret.op = "decode"
        /\ ret.of.op = "encode"
        /\ IsBits(ret.of.data)
        /\ Len(ret.of.data) <= n
        /\ ret.size = Len(ret.of.data))
       => ret.val = ret.of.data

\* The bit vector (0, 1) has been encoded in an engine with n = 2 and decoded
\* to its own length, giving (0, 1).
C18_Witness ==
    /\ ret.op = "decode"
    /\ ret.of.op = "encode"
    /\ n = 2
    /\ ret.of.data = <<0, 1>>
    /\ ret.size = 2
    /\ ret.val = <<0, 1>>

(***************************************************************************)
(* C20.  Ring multiplication is the reference cyclic convolution: for a, b *)
(* of one dimension n with coefficients in {0,1} and every k in 0..n-1,    *)
(* (a*b)[k] is the XOR over all (i, j) with (i + j) mod n = k of           *)
(* (a[i] AND b[j]).                                                        *)
(***************************************************************************)
C20_RingMultiplyIsConvolution ==
    (/\ ret.op = "operator*"
     /\ ret.err = "none"
     /\ ret.a.n = ret.b.n)
    => /\ ret.val.n = ret.a.n
       /\ \A k \in 0..(ret.a.n - 1) :
             ret.val.coeffs[k + 1]
               = Convolution(ret.a.coeffs, ret.b.coeffs, ret.a.n)[k + 1]

\* (1 + x) * x has been computed with n = 2: x + x^2 wraps to 1 + x.
C20_Witness ==
    /\ ret.op = "operator*"
    /\ ret.class = "SimpleBinaryPoly"
    /\ ret.a.coeffs = <<1, 1>>
    /\ ret.b.coeffs = <<0, 1>>
    /\ ret.err = "none"
    /\ ret.val.coeffs = <<1, 1>>

(***************************************************************************)
(* Ring laws: a caller holds three ring elements a, b, c of one dimension  *)
(* (coefficients in {0,1}) and evaluates both sides of a law on them.      *)
(***************************************************************************)
\* The ring elements of dimension d.
RingElements(d) == [n : {d}, coeffs : [1..d -> {0, 1}]]

InitLaws ==
    \E d \in 1..MaxLawDim : \E a, b, c \in RingElements(d) :
        /\ n = d
        /\ h = CDiv2(2)
        /\ keys = [k \in KeySlots |-> NoKeys]
        /\ ct = [r \in Regs |-> NoCt]
        /\ ret = [op |-> "operands", a |-> a, b |-> b, c |-> c]

NextLaws == \E law \in {"a*(b+c)", "a+b", "(a+b)+c", "a+a"} : EvaluateLaw(law)

SpecLaws == InitLaws /\ [][NextLaws]_vars

(***************************************************************************)
(* C21.  Multiplication distributes over addition: for ring elements a, b, *)
(* c of one dimension, a*(b+c) = a*b + a*c coefficient for coefficient.    *)
(***************************************************************************)
C21_Distributive ==
    ret.op = "a*(b+c)"
    => /\ ret.lhs.n = ret.rhs.n
       /\ \A k \in 1..n : ret.lhs.coeffs[k] = ret.rhs.coeffs[k]

\* (1 + x) * (1 + x) has been evaluated with n = 2 as a*(b+c), b = 1, c = x:
\* both sides are 0.
C21_Witness ==
    /\ ret.op = "a*(b+c)"
    /\ ret.a.coeffs = <<1, 1>>
    /\ ret.b.coeffs = <<1, 0>>
    /\ ret.c.coeffs = <<0, 1>>
    /\ ret.lhs.coeffs = <<0, 0>>
    /\ ret.rhs.coeffs = <<0, 0>>

(***************************************************************************)
(* C22.  Addition laws: for ring elements a, b, c of one dimension,        *)
(* a + b = b + a, (a + b) + c = a + (b + c), and a + a is the zero         *)
(* element.                                                                *)
(***************************************************************************)
C22_AdditionLaws ==
    /\ ret.op \in {"a+b", "(a+b)+c"} => ret.lhs = ret.rhs
    /\ ret.op = "a+a"
       => /\ ret.lhs.n = n
          /\ \A k \in 1..n : ret.lhs.coeffs[k] = 0

\* (a + b) + c has been evaluated with n = 3 for a = 1 + x, b = x + x^2,
\* c = 1 + x^2: both groupings give 0.
C22_Witness ==
    /\ ret.op = "(a+b)+c"
    /\ ret.a.coeffs = <<1, 1, 0>>
    /\ ret.b.coeffs = <<0, 1, 1>>
    /\ ret.c.coeffs = <<1, 0, 1>>
    /\ ret.lhs.coeffs = <<0, 0, 0>>
    /\ ret.rhs.coeffs = <<0, 0, 0>>

(***************************************************************************)
(* Noise-free evaluation: an engine of ring dimension 2 whose Gaussian     *)
(* sampler returns even values only, so that e and e0 of keyGen and e0 and *)
(* e1 of every encrypt are zero; one key set, ciphertexts encrypted,       *)
(* added, multiplied, refreshed under that key set and kept for further    *)
(* operations.                                                             *)
(***************************************************************************)
InitNoiseFree == Construct(2, 2)

NextNoiseFree ==
    \/ KeyGen(1, EvenGaussVals)
    \/ \E data \in [1..n -> {0, 1}] : Encode(data)
    \/ \E r \in Regs : Encrypt(r, 1, EvenGaussVals)
    \/ \E b \in Regs : Add(1, b)
    \/ \E b \in Regs : Multiply(1, b, 1)
    \/ Refresh(1, 1, 1, EvenGaussVals)
    \/ Store(1)

SpecNoiseFree == InitNoiseFree /\ [][NextNoiseFree]_vars

InitFresh ==
    \E security \in {0, 2, 4} :
    \E positions \in Shuffles(2), a_coeffs \in BinaryVectors(2),
       e_samples \in GaussVectors(2, GaussVals) :
        /\ n = 2
        /\ h = CDiv2(security)
        /\ keys = [k \in KeySlots |->
                     IF k = 1
                     THEN [valid |-> TRUE,
                           val |-> keyGen(2, CDiv2(security), positions, a_coeffs,
                                          e_samples, <<0, 0>>, <<0, 0>>)]
                     ELSE NoKeys]
        /\ ct = [r \in Regs |-> NoCt]
        /\ ret = NoRet

NextFresh ==
    \/ \E data \in [1..n -> {0, 1}] : Encode(data)
    \/ Encrypt(1, 1, GaussVals)
    \/ Decrypt(1, 1)

SpecFresh == InitFresh /\ [][NextFresh]_vars

(***************************************************************************)
(* C24.  Decryption of a fresh encryption: for keys with                   *)
(* pk_b = pk_a*s + e, decrypt(encrypt(m)) is exactly                       *)
(* m + v*e + e0 + e1*s, v, e0, e1 the polynomials encrypt sampled; it is m *)
(* if and only if v*e + e0 + e1*s is the zero polynomial.                  *)
(***************************************************************************)
C24_FreshDecryption ==
    (/\ ret.op = "decrypt"
     /\ ret.err = "none"
     /\ ret.from.op = "encrypt"
     /\ ret.key = ret.from.key)
    => LET K == keys[ret.key].val
           m == encode(n, ct[ret.src].data)
           e == PolyAdd(K.pk_b, PolyMul(K.pk_a, K.s))
           residual == PolyAdd(PolyAdd(PolyMul(ret.from.v, e), ret.from.e0),
                               PolyMul(ret.from.e1, K.s))
       IN  /\ ret.val = PolyAdd(m, residual)
           /\ (ret.val = m) <=> (residual = ZeroPoly(n))

\* s = x, e = 1 + x, and the encryption of m = 1 with v = 1, e0 = x, e1 = 1
\* decrypts to m + v*e + e0 + e1*s = 1 + (1 + x) + x + x = x, not to m.
C24_Witness ==
    /\ ret.op = "decrypt"
    /\ ret.err = "none"
    /\ ret.from.op = "encrypt"
    /\ keys[1].val.s.coeffs = <<0, 1>>
    /\ PolyAdd(keys[1].val.pk_b, PolyMul(keys[1].val.pk_a, keys[1].val.s)).coeffs = <<1, 1>>
    /\ keys[1].val.pk_a.coeffs = <<1, 1>>
    /\ ct[1].data = <<1, 0>>
    /\ ret.from.v.coeffs = <<1, 0>>
    /\ ret.from.e0.coeffs = <<0, 1>>
    /\ ret.from.e1.coeffs = <<1, 0>>
    /\ ret.val.coeffs = <<0, 1>>

(***************************************************************************)
(* add and multiply on every pair of ciphertexts: an engine of ring        *)
(* dimension 2 and Hamming weight 0, 1 or 2 whose caller holds a key set   *)
(* from keyGen (the public key, which add, multiply and decrypt do not     *)
(* read, built from zero samples) and two ciphertexts ct[1], ct[2] of that *)
(* key set.  With pk = (0, 0) encrypt returns (m + e0, e1), so every pair  *)
(* of binary polynomials is a ciphertext encrypt returns.                  *)
(***************************************************************************)
\* The ciphertexts of ring dimension d as encrypt leaves them.
Ciphertexts(d) ==
    [c0 : RingElements(d), c1 : RingElements(d), noise_estimate : {sigma}]

InitCipher ==
    \E security \in {0, 2, 4} :
    \E positions \in Shuffles(2), a0_coeffs \in BinaryVectors(2),
       e0_samples \in GaussVectors(2, GaussVals) :
    \E ct1, ct2 \in Ciphertexts(2) :
        /\ n = 2
        /\ h = CDiv2(security)
        /\ keys = [k \in KeySlots |->
                     IF k = 1
                     THEN [valid |-> TRUE,
                           val |-> keyGen(2, CDiv2(security), positions, <<0, 0>>,
                                          <<0, 0>>, a0_coeffs, e0_samples)]
                     ELSE NoKeys]
        /\ ct = [r \in Regs |->
                   [valid |-> TRUE, val |-> IF r = 1 THEN ct1 ELSE ct2,
                    key |-> 1, fresh |-> FALSE, data |-> << >>]]
        /\ ret = NoRet

NextCipher ==
    \/ Add(1, 2)
    \/ Multiply(1, 2, 1)
    \/ \E src \in Sources : Decrypt(src, 1)

SpecCipher == InitCipher /\ [][NextCipher]_vars

(***************************************************************************)
(* C25.  Relinearization identity: for keys with                           *)
(* evk_b = evk_a*s + e0 + s*s, the product of ct1 and ct2 decrypts to      *)
(* decrypt(ct1)*decrypt(ct2) + (ct1.c1*ct2.c1)*e0; with e0 = 0 it decrypts *)
(* to exactly the product of the two decryptions.                          *)
(***************************************************************************)
C25_Relinearization ==
    DecryptedResultOf(ret, "multiply") /\ ret.err = "none"
    => LET K == keys[ret.key].val
           ct1 == ct[ret.from.a].val
           ct2 == ct[ret.from.b].val
           e0 == PolyAdd(PolyAdd(K.evk_b, PolyMul(K.evk_a, K.s)), PolyMul(K.s, K.s))
           product == PolyMul(decrypt(ct1, K), decrypt(ct2, K))
       IN  /\ ret.val = PolyAdd(product, PolyMul(PolyMul(ct1.c1, ct2.c1), e0))
           /\ e0 = ZeroPoly(n) => ret.val = product

\* A product decrypted under a key set with s # 0 and e0 # 0 to something
\* other than the product of the two decryptions, which is not zero.
C25_Witness ==
    /\ DecryptedResultOf(ret, "multiply") /\ ret.err = "none"
    /\ keys[1].val.s.coeffs = <<0, 1>>
    /\ keys[1].val.evk_a.coeffs = <<1, 1>>
    /\ PolyAdd(PolyAdd(keys[1].val.evk_b, PolyMul(keys[1].val.evk_a, keys[1].val.s)),
               PolyMul(keys[1].val.s, keys[1].val.s)).coeffs = <<1, 0>>
    /\ PolyMul(ct[1].val.c1, ct[2].val.c1).coeffs = <<0, 1>>
    /\ PolyMul(decrypt(ct[1].val, keys[1].val),
               decrypt(ct[2].val, keys[1].val)).coeffs = <<1, 0>>
    /\ ret.val.coeffs = <<1, 1>>

(***************************************************************************)
(* C26.  Additive homomorphism: for every two ciphertexts and every secret *)
(* key s of one ring dimension, decrypt(add(ct1, ct2), s) =                *)
(* decrypt(ct1, s) + decrypt(ct2, s).                                      *)
(***************************************************************************)
C26_AdditiveHomomorphism ==
    DecryptedResultOf(ret, "add") /\ ret.err = "none"
    => ret.val = PolyAdd(decrypt(ct[ret.from.a].val, keys[ret.key].val),
                         decrypt(ct[ret.from.b].val, keys[ret.key].val))

\* s = 1 + x, ct1 = (1, x) decrypts to x, ct2 = (x, 1) decrypts to 1, and
\* their sum (1 + x, 1 + x) decrypts to 1 + x.
C26_Witness ==
    /\ DecryptedResultOf(ret, "add") /\ ret.err = "none"
    /\ keys[1].val.s.coeffs = <<1, 1>>
    /\ ct[1].val.c0.coeffs = <<1, 0>> /\ ct[1].val.c1.coeffs = <<0, 1>>
    /\ ct[2].val.c0.coeffs = <<0, 1>> /\ ct[2].val.c1.coeffs = <<1, 0>>
    /\ ret.from.val.c0.coeffs = <<1, 1>> /\ ret.from.val.c1.coeffs = <<1, 1>>
    /\ ret.val.coeffs = <<1, 1>>

(***************************************************************************)
(* C27.  Noise floor: sigma > 0, and every ciphertext made by a sequence   *)
(* of encrypt, add, multiply and refresh has noise_estimate >= sigma; the  *)
(* result of add and of multiply has a noise_estimate no lower than either *)
(* operand's, so that only refresh lowers a noise estimate.                *)
(***************************************************************************)
C27_NoiseFloor ==
    /\ RatGT(sigma, Rat(0, 1))
    /\ \A r \in Regs :
          ct[r].valid => ~RatGT(sigma, ct[r].val.noise_estimate)
    /\ ret.op \in CtOps => ~RatGT(sigma, ret.val.noise_estimate)
    /\ ret.op \in {"add", "multiply"}
       => /\ ~RatGT(ct[ret.a].val.noise_estimate, ret.val.noise_estimate)
          /\ ~RatGT(ct[ret.b].val.noise_estimate, ret.val.noise_estimate)

\* A kept sum of noise_estimate 2 * sigma has been refreshed: the result is
\* back at sigma, below the ciphertext refreshed.
C27_Witness ==
    /\ ret.op = "refresh"
    /\ ~ct[ret.a].fresh
    /\ ct[ret.a].val.noise_estimate = Rat(32, 5)
    /\ ret.val.noise_estimate = sigma
    /\ RatGT(ct[ret.a].val.noise_estimate, ret.val.noise_estimate)

(***************************************************************************)
(* Every operation of the engine on engines of ring dimension 1 and 2      *)
(* whose Gaussian sampler returns even values: one key set, one            *)
(* ciphertext, and what each call draws from the samplers.                 *)
(***************************************************************************)
InitSamplers == Construct(2, 1) \/ Construct(2, 2)

NextSamplers ==
    \/ KeyGen(1, EvenGaussVals)
    \/ \E data \in [1..n -> {0, 1}] : Encode(data)
    \/ Encrypt(1, 1, EvenGaussVals)
    \/ \E src \in {0, 1} : Decrypt(src, 1)
    \/ Decode(n)
    \/ Add(1, 1)
    \/ Multiply(1, 1, 1)
    \/ \E src \in {0, 1} : NeedsRefresh(src, Rat(50, 1))
    \/ Refresh(1, 1, 1, EvenGaussVals)

SpecSamplers == InitSamplers /\ [][NextSamplers]_vars

(***************************************************************************)
(* C28.  Sampler-state effects: add, multiply, decrypt, needsRefresh,      *)
(* encode and decode draw from no sampler; encrypt, and so refresh, draws  *)
(* exactly n values from the uniform sampler, 2n from the Gaussian sampler *)
(* and none from the Hamming-weight sampler; keyGen draws 2n uniform       *)
(* values, 2n Gaussian values and one shuffle.                             *)
(***************************************************************************)
C28_SamplerDraws ==
    /\ ret.op \in {"add", "multiply", "decrypt", "needsRefresh", "encode", "decode"}
       => ret.draws = [uniform |-> 0, gaussian |-> 0, hwt |-> 0]
    /\ ret.op \in {"encrypt", "refresh"}
       => ret.draws = [uniform |-> n, gaussian |-> 2 * n, hwt |-> 0]
    /\ ret.op = "keyGen"
       => ret.draws = [uniform |-> 2 * n, gaussian |-> 2 * n, hwt |-> 1]

\* On an engine of ring dimension 2 a refresh has drawn 2 uniform and 4
\* Gaussian values.
C28_Witness ==
    /\ n = 2
    /\ ret.op = "refresh"
    /\ ret.draws.uniform = 2
    /\ ret.draws.gaussian = 4
    /\ ret.draws.hwt = 0

(***************************************************************************)
(* Key generation of the BinaryCKKS engine (src/binary_ckks.cpp) at ring   *)
(* dimension 1 and 2.                                                      *)
(***************************************************************************)
InitBinary == BinaryConstruct(1) \/ BinaryConstruct(2)

NextBinary == BinaryKeyGen(1, GaussVals)

SpecBinary == InitBinary /\ [][NextBinary]_vars

(***************************************************************************)
(* C29.  Error reduction: keyGen and encrypt reduce every rounded Gaussian *)
(* sample x, negative ones included, to |x| mod 2, so every coefficient of *)
(* the error polynomials e, e0 (keyGen) and e0, e1 (encrypt) is 0 or 1.    *)
(***************************************************************************)
C29_ErrorReduction ==
    /\ (ret.op = "keyGen" /\ ret.err = "none")
       => IsBits(ret.e.coeffs) /\ IsBits(ret.e0.coeffs)
    /\ ret.op = "encrypt"
       => IsBits(ret.e0.coeffs) /\ IsBits(ret.e1.coeffs)

(***************************************************************************)
(* Seeding: two Hamming-weight samplers of one class, built with explicit  *)
(* seeds or as the hwt_sampler of two engines constructed one after the    *)
(* other, each serving the same sampleHWT(n, h) calls, n = 2 and h = 1.    *)
(***************************************************************************)
InitSeeds == Construct(2, 2)

NextSeeds ==
    \/ \E class \in HwtClasses, seed1, seed2 \in Seeds :
          NewSamplers(class, seed1, seed2)
    \/ \E class \in HwtClasses, entropy1, entropy2 \in Seeds :
          NewEngines(class, entropy1, entropy2)
    \/ SampleBoth

SpecSeeds == InitSeeds /\ [][NextSeeds]_vars

(***************************************************************************)
(* C30.  Sampler seeding: two samplers built with the same explicit seed   *)
(* return the same sequence of results for the same calls; a sampler built *)
(* without a seed is seeded with what the entropy source returned, so two  *)
(* engines constructed without seeds whose entropy values lead to          *)
(* different shuffles generate different secret keys.                      *)
(***************************************************************************)
C30_SamplerSeeding ==
    /\ (/\ ret.op = "sampleHWT"
        /\ ret.explicit
        /\ ret.samplers[1].seed = ret.samplers[2].seed)
       => ret.out[1] = ret.out[2]
    /\ (ret.op \in {"construct", "sampleHWT"} /\ ~ret.explicit)
       => \A i \in {1, 2} : ret.samplers[i].seed = ret.entropy[i]
    /\ (/\ ret.op = "sampleHWT"
        /\ ~ret.explicit
        /\ ShuffleFrom(n, ret.entropy[1], 0) # ShuffleFrom(n, ret.entropy[2], 0))
       => ret.out[1] # ret.out[2]

============================================================================
